---- MODULE Spec2Model ----
(***************************************************************************)
(* Model of flasher.py: bulk OTA update of WLED devices.                   *)
(*                                                                         *)
(* Every device has one worker (flash_and_configure_device) that runs      *)
(* flash_device, wait_for_device and configure_device in turn; main        *)
(* submits the workers to a thread pool and collects their results.        *)
(* Each network call or sleep of the code is one action; the local         *)
(* computation that follows the call (classification of the response,      *)
(* early returns, continue) is part of the same action.  The frame of a    *)
(* called function (its locals and its return value) stays visible until   *)
(* the caller's next step consumes the return value.                       *)
(***************************************************************************)
EXTENDS Integers, Sequences, FiniteSets, TLC

(***************************************************************************)
(* Bounds of the model and constants of the program                        *)
(***************************************************************************)
MaxRetries == 3          \* WorkerSpec: max_retries ranges over 0..MaxRetries
MaxTimeout == 7          \* WaitSpec: timeout ranges over 0..MaxTimeout
MaxInterval == 2         \* WaitSpec: check_interval ranges over 1..MaxInterval
MaxAdverts == 2          \* RunSpec: advertisements resolved in one discovery

DefaultMaxRetries == 2   \* flash_and_configure_device(..., max_retries=2)
RebootTimeout == 60      \* wait_for_device(ip, timeout=60)
DefaultCheckInterval == 2 \* wait_for_device(..., check_interval=2)
WaitProbeTimeout == 2    \* requests.get(..., timeout=2) in wait_for_device
SettleDelay == 5         \* time.sleep(5) after the first answered poll

Addrs == {"10.0.0.5", "10.0.0.7"}

\* sorted(list(set(...))) of discover_wled, or [args.ip]: the non-empty,
\* duplicate-free, ascending device lists over Addrs
DeviceLists == {<<"10.0.0.5">>, <<"10.0.0.7">>, <<"10.0.0.5", "10.0.0.7">>}

VARIABLES
    devices,      \* main: the device list
    firmware,     \* "present" or "missing": whether open(firmware_path) works
    max_retries,  \* the max_retries argument of the workers
    mainPc,       \* main: "submit", "collect", "unwind", "done", "raised", or "call"
    submitted,    \* main: number of futures submitted so far
    yielded,      \* main: futures that as_completed has yielded
    results,      \* main: the results list
    summary,      \* main: the counts of the summary
    pc,           \* per device: position of the worker
    flash,        \* per device: frame of flash_device
    wait,         \* per device: frame of wait_for_device
    cfg,          \* per device: frame of configure_device
    rec,          \* per device: the record the worker returned
    args,         \* main: the parsed command line (dry_run, ip)
    found,        \* WLEDListener.devices, each ip as a sequence of characters
    inflight      \* add_service callbacks that resolved an ip and have not
                  \* appended it yet: ip -> number of such callbacks

discVars == <<args, found, inflight>>

vars == <<devices, firmware, max_retries, mainPc, submitted, yielded, results,
          summary, pc, flash, wait, cfg, rec, args, found, inflight>>

mainVars == <<devices, firmware, max_retries, mainPc, submitted, yielded,
              results, summary, args, found, inflight>>

(***************************************************************************)
(* Text: str.lower, str.strip, the `in` operator                           *)
(***************************************************************************)
UpperCase == <<"A","B","C","D","E","F","G","H","I","J","K","L","M",
               "N","O","P","Q","R","S","T","U","V","W","X","Y","Z">>
LowerCase == <<"a","b","c","d","e","f","g","h","i","j","k","l","m",
               "n","o","p","q","r","s","t","u","v","w","x","y","z">>
Whitespace == {" ", "\n", "\r", "\t"}

LowerChar(c) ==
    IF \E i \in 1..Len(UpperCase) : UpperCase[i] = c
    THEN LowerCase[CHOOSE i \in 1..Len(UpperCase) : UpperCase[i] = c]
    ELSE c

\* str.lower()
Lower(s) == [i \in 1..Len(s) |-> LowerChar(s[i])]

\* needle in hay
Contains(needle, hay) ==
    \E i \in 1..(Len(hay) - Len(needle) + 1) :
        SubSeq(hay, i, i + Len(needle) - 1) = needle

RECURSIVE LStrip(_)
LStrip(s) == IF s # <<>> /\ Head(s) \in Whitespace THEN LStrip(Tail(s)) ELSE s

RECURSIVE RStrip(_)
RStrip(s) ==
    IF s # <<>> /\ s[Len(s)] \in Whitespace
    THEN RStrip(SubSeq(s, 1, Len(s) - 1))
    ELSE s

\* str.strip()
Strip(s) == RStrip(LStrip(s))

(***************************************************************************)
(* What a device may answer                                                *)
(***************************************************************************)
StatusCodes == {200, 500}

\* bodies of the answer to POST /update, as sequences of characters
Bodies == {
    <<>>,
    <<" ", "\n">>,
    <<"O","K">>,
    <<"U","p","d","a","t","e"," ","S","u","c","c","e","s","s">>,
    <<"S","U","C","C","E","S","S">>,
    <<"E","r","r","o","r">> }

\* requests.exceptions: the classes an exception class is an instance of
Bases(cls) ==
    CASE cls = "ChunkedEncodingError" ->
            {"ChunkedEncodingError", "RequestException", "Exception"}
      [] cls = "ConnectionError" ->
            {"ConnectionError", "RequestException", "Exception"}
      [] cls = "ReadTimeout" ->
            {"ReadTimeout", "Timeout", "RequestException", "Exception"}
      [] cls = "ConnectTimeout" ->
            {"ConnectTimeout", "ConnectionError", "Timeout",
             "RequestException", "Exception"}
      [] cls = "TooManyRedirects" ->
            {"TooManyRedirects", "RequestException", "Exception"}
      [] cls = "FileNotFoundError" ->
            {"FileNotFoundError", "OSError", "Exception"}
      [] OTHER -> {cls, "Exception"}

IsInstance(e, cls) == cls \in Bases(e.cls)

\* The exceptions requests.post / requests.get may raise, with str(e) as a
\* sequence of words; `abrupt` tells whether the transport was cut during or
\* after the response (the device dropped the connection or went silent
\* after the request was sent).
TransportErrors == {
    [cls |-> "ChunkedEncodingError", abrupt |-> TRUE,
     msg |-> <<"Connection", "broken", ":", "IncompleteRead">>],
    [cls |-> "ConnectionError", abrupt |-> TRUE,
     msg |-> <<"Connection", "aborted", ".", "RemoteDisconnected", "Remote",
               "end", "closed", "connection", "without", "response">>],
    [cls |-> "ConnectionError", abrupt |-> TRUE,
     msg |-> <<"Connection", "aborted", ".", "ConnectionResetError", "104",
               "Connection", "reset", "by", "peer">>],
    [cls |-> "ReadTimeout", abrupt |-> TRUE,
     msg |-> <<"HTTPConnectionPool", ":", "Read", "timed", "out", ".">>],
    [cls |-> "ConnectionError", abrupt |-> FALSE,
     msg |-> <<"Max", "retries", "exceeded", ":", "Connection", "refused">>],
    [cls |-> "ConnectTimeout", abrupt |-> FALSE,
     msg |-> <<"Connection", "to", "host", "timed", "out", ".">>],
    [cls |-> "TooManyRedirects", abrupt |-> FALSE,
     msg |-> <<"Exceeded", "30", "redirects", ".">>] }

NoCall == [kind |-> "none"]
Http(status, text) == [kind |-> "http", status |-> status, text |-> text]
Raised(e) == [kind |-> "exc", cls |-> e.cls, msg |-> e.msg, abrupt |-> e.abrupt]

\* outcomes of POST /update
UploadResults ==
    {Http(s, b) : s \in StatusCodes, b \in Bodies} \cup {Raised(e) : e \in TransportErrors}

\* outcomes of GET /
ProbeResults ==
    {Http(s, <<>>) : s \in StatusCodes} \cup {Raised(e) : e \in TransportErrors}

(***************************************************************************)
(* flash_device                                                            *)
(***************************************************************************)
NoFlash == [attempt |-> 0, check |-> 0, r |-> NoCall, field |-> "none",
            posts |-> 0, ret |-> FALSE, outcome |-> "none"]

\* range(1, max_retries + 1)
AttemptRangeOffByOne(m) == 1..(m + 1)
AttemptRange(m) == 1..m

\* "success" in response_lower or "update" in response_lower
\*     or len(r.text.strip()) == 0
RecognizedBody(text) ==
    \/ Contains(<<"s","u","c","c","e","s","s">>, Lower(text))
    \/ Contains(<<"u","p","d","a","t","e">>, Lower(text))
    \/ Len(Strip(text)) = 0

\* "RemoteDisconnected" in error_str or "Connection reset" in error_str
\*     or "Read timed out" in error_str
HasRebootMarkerNoReadTimeout(msg) ==
    \/ Contains(<<"RemoteDisconnected">>, msg)
    \/ Contains(<<"Connection", "reset">>, msg)
HasRebootMarker(msg) ==
    \/ Contains(<<"RemoteDisconnected">>, msg)
    \/ Contains(<<"Connection", "reset">>, msg)
    \/ Contains(<<"Read", "timed", "out">>, msg)

\* the handlers of the outer try, in order, for an exception that left the
\* upload block
OuterHandler(e) ==
    IF IsInstance(e, "Timeout") THEN "fail"
    ELSE IF IsInstance(e, "ConnectionError") THEN "fail"
    ELSE IF IsInstance(e, "FileNotFoundError") THEN "fatal"
    ELSE "fail"

\* the handlers of the upload block, in order; what they do not handle, or
\* re-raise, goes to the outer handlers
UploadHandler(e) ==
    IF IsInstance(e, "ChunkedEncodingError") THEN "success"
    ELSE IF IsInstance(e, "ConnectionError") \/ IsInstance(e, "ReadTimeout")
         THEN IF HasRebootMarker(e.msg) THEN "success" ELSE OuterHandler(e)
         ELSE OuterHandler(e)

\* classification of the answer to the upload with field name "update"
PrimaryOutcomeNoFallback(res) ==
    IF res.kind = "exc" THEN UploadHandler(res)
    ELSE IF res.status = 200 THEN "success" ELSE "fail"
PrimaryOutcome(res) ==
    IF res.kind = "exc" THEN UploadHandler(res)
    ELSE IF res.status = 200
         THEN IF RecognizedBody(res.text) THEN "success" ELSE "fallback"
         ELSE "fail"

\* classification of the answer to the upload with field name "file"
FallbackOutcomeStrict(res) ==
    IF res.kind = "exc" THEN UploadHandler(res)
    ELSE IF res.status = 200 /\ RecognizedBody(res.text) THEN "success" ELSE "fail"
FallbackOutcome(res) ==
    IF res.kind = "exc" THEN UploadHandler(res)
    ELSE IF res.status = 200 THEN "success" ELSE "fail"

\* return True
Succeeded(f) == [f EXCEPT !.ret = TRUE, !.outcome = "Success"]

\* return False at the site of the failure `oc`
Returned(f, oc) == [f EXCEPT !.ret = FALSE, !.outcome = oc]

\* if attempt == max_retries: return False / continue; a `continue` that
\* exhausts the range falls through to the final return False
FailFrame(f, oc) ==
    IF f.attempt = max_retries THEN Returned(f, oc)
    ELSE IF f.attempt + 1 \in AttemptRange(max_retries)
         THEN [f EXCEPT !.attempt = @ + 1]
         ELSE Returned(f, "Exhausted")

FailPcGiveUp(f) == "f_ret"
FailPc(f) ==
    IF f.attempt # max_retries /\ f.attempt + 1 \in AttemptRange(max_retries)
    THEN "f_backoff"
    ELSE "f_ret"

\* flash_and_configure_device calls flash_device, which enters its loop
FlashCall(d) ==
    /\ pc[d] = "start"
    /\ IF 1 \in AttemptRange(max_retries)
       THEN /\ flash' = [flash EXCEPT ![d] = [NoFlash EXCEPT !.attempt = 1]]
            /\ pc' = [pc EXCEPT ![d] = "f_probe"]
       ELSE /\ flash' = [flash EXCEPT ![d] = Returned(NoFlash, "Exhausted")]
            /\ pc' = [pc EXCEPT ![d] = "f_ret"]
    /\ UNCHANGED <<mainVars, wait, cfg, rec>>

\* if attempt > 1: time.sleep(2)
FlashBackoff(d) ==
    /\ pc[d] = "f_backoff"
    /\ flash' = [flash EXCEPT ![d] = [@ EXCEPT !.check = 0, !.r = NoCall,
                                                !.field = "none"]]
    /\ pc' = [pc EXCEPT ![d] = "f_probe"]
    /\ UNCHANGED <<mainVars, wait, cfg, rec>>

\* check = requests.get(f"http://{ip}", timeout=5)
FlashProbe(d) ==
    /\ pc[d] = "f_probe"
    /\ \E res \in ProbeResults :
         IF res.kind = "exc"
         THEN /\ flash' = [flash EXCEPT ![d] = FailFrame(@, "Unreachable")]
              /\ pc' = [pc EXCEPT ![d] = FailPc(flash[d])]
         ELSE /\ flash' = [flash EXCEPT ![d] = [@ EXCEPT !.check = res.status]]
              /\ pc' = [pc EXCEPT ![d] = "f_upload"]
    /\ UNCHANGED <<mainVars, wait, cfg, rec>>

\* the frame and the position after an upload call answered `res`,
\* classified `oc`
AfterUpload(f, res, field, oc) ==
    LET g == [f EXCEPT !.r = res, !.field = field, !.posts = @ + 1]
    IN  CASE oc = "success"  -> Succeeded(g)
          [] oc = "fallback" -> g
          [] oc = "fatal"    -> Returned(g, "Fatal")
          [] OTHER           -> FailFrame(g, "AmbiguousFailure")

AfterUploadPcRetriesSuccess(f, oc) ==
    CASE oc = "fallback" -> "f_fallback"
      [] oc = "fatal"    -> "f_ret"
      [] OTHER           -> FailPc(f)
AfterUploadPc(f, oc) ==
    CASE oc = "success"  -> "f_ret"
      [] oc = "fallback" -> "f_fallback"
      [] oc = "fatal"    -> "f_ret"
      [] OTHER           -> FailPc(f)

\* open(firmware_path, "rb"); requests.post(url, files={"update": ...})
FlashUpload(d) ==
    /\ pc[d] = "f_upload"
    /\ IF firmware = "missing"
       THEN /\ flash' = [flash EXCEPT ![d] = Returned(@, "Fatal")]
            /\ pc' = [pc EXCEPT ![d] = "f_ret"]
       ELSE \E res \in UploadResults :
              /\ flash' = [flash EXCEPT ![d] =
                              AfterUpload(@, res, "update", PrimaryOutcome(res))]
              /\ pc' = [pc EXCEPT ![d] = AfterUploadPc(flash[d], PrimaryOutcome(res))]
    /\ UNCHANGED <<mainVars, wait, cfg, rec>>

\* open(firmware_path, "rb"); requests.post(url, files={"file": ...})
FlashFallback(d) ==
    /\ pc[d] = "f_fallback"
    /\ \E res \in UploadResults :
         /\ flash' = [flash EXCEPT ![d] =
                         AfterUpload(@, res, "file", FallbackOutcome(res))]
         /\ pc' = [pc EXCEPT ![d] = AfterUploadPc(flash[d], FallbackOutcome(res))]
    /\ UNCHANGED <<mainVars, wait, cfg, rec>>

(***************************************************************************)
(* wait_for_device                                                         *)
(***************************************************************************)
\* okAt: the time (since start_time) at which the first GET / was answered
\* with HTTP 200, -1 while none was; after: the number of polls issued after
\* that answer
NoWait == [timeout |-> 0, check_interval |-> 0, elapsed |-> 0, okAt |-> -1,
           after |-> 0, ret |-> FALSE]

NewWait(timeout, check_interval) ==
    [NoWait EXCEPT !.timeout = timeout, !.check_interval = check_interval]

\* r.status_code == 200, with no exception raised
WaitAnsweredAnyStatus(res) == res.kind = "http"
WaitAnswered(res) == res.kind = "http" /\ res.status = 200

\* while time.time() - start_time < timeout
WaitLoopCondForever(w) == TRUE
WaitLoopCond(w) == w.elapsed < w.timeout

\* the loop condition is false: return False
WaitTimeout(d) ==
    /\ pc[d] = "w_loop"
    /\ ~WaitLoopCond(wait[d])
    /\ wait' = [wait EXCEPT ![d] = [@ EXCEPT !.ret = FALSE]]
    /\ pc' = [pc EXCEPT ![d] = "w_ret"]
    /\ UNCHANGED <<mainVars, flash, cfg, rec>>

\* r = requests.get(f"http://{ip}", timeout=2), which takes `dur` seconds
WaitProbe(d) ==
    /\ pc[d] = "w_loop"
    /\ WaitLoopCond(wait[d])
    /\ \E res \in ProbeResults, dur \in 0..WaitProbeTimeout :
         LET w == wait[d]
             is200 == res.kind = "http" /\ res.status = 200
         IN  /\ wait' = [wait EXCEPT ![d] =
                   [w EXCEPT !.elapsed = @ + dur,
                             !.okAt = IF w.okAt = -1 /\ is200
                                      THEN w.elapsed + dur ELSE @,
                             !.after = IF w.okAt # -1 THEN 1 ELSE @]]
             /\ pc' = [pc EXCEPT ![d] =
                   IF WaitAnswered(res) THEN "w_settle" ELSE "w_sleep"]
    /\ UNCHANGED <<mainVars, flash, cfg, rec>>

\* time.sleep(check_interval)
WaitSleep(d) ==
    /\ pc[d] = "w_sleep"
    /\ wait' = [wait EXCEPT ![d] = [@ EXCEPT !.elapsed = @ + wait[d].check_interval]]
    /\ pc' = [pc EXCEPT ![d] = "w_loop"]
    /\ UNCHANGED <<mainVars, flash, cfg, rec>>

\* time.sleep(5); return True
WaitSettle(d) ==
    /\ pc[d] = "w_settle"
    /\ wait' = [wait EXCEPT ![d] = [@ EXCEPT !.elapsed = @ + SettleDelay,
                                             !.ret = TRUE]]
    /\ pc' = [pc EXCEPT ![d] = "w_ret"]
    /\ UNCHANGED <<mainVars, flash, cfg, rec>>

(***************************************************************************)
(* configure_device                                                        *)
(***************************************************************************)
NoCfg == [r |-> NoCall, ret |-> FALSE]

ContentTypes == {"application/json", "application/json; charset=utf-8", "text/html"}

JsonBodies == {"{\"success\":true}", "{\"on\":true,\"bri\":64}", "[]", "null",
               "{\"succ", "<html>OK</html>"}

\* r.json(): the value parsed from the body, ok = FALSE where the body is
\* no JSON document
ParseJson(text) ==
    CASE text = "{\"success\":true}" ->
            [ok |-> TRUE, type |-> "dict", success |-> TRUE]
      [] text = "{\"on\":true,\"bri\":64}" ->
            [ok |-> TRUE, type |-> "dict", success |-> FALSE]
      [] text = "[]" -> [ok |-> TRUE, type |-> "list", success |-> FALSE]
      [] text = "null" -> [ok |-> TRUE, type |-> "NoneType", success |-> FALSE]
      [] OTHER -> [ok |-> FALSE, type |-> "none", success |-> FALSE]

CfgHttp(status, ctype, text) ==
    [kind |-> "http", status |-> status, ctype |-> ctype, text |-> text]

\* outcomes of POST /json/state
ConfigResults ==
    {CfgHttp(s, c, b) : s \in StatusCodes, c \in ContentTypes, b \in JsonBodies}
    \cup {Raised(e) : e \in TransportErrors}

\* response_data = r.json() if content-type == 'application/json' else {}
ResponseData(res) ==
    IF res.ctype = "application/json"
    THEN ParseJson(res.text)
    ELSE [ok |-> TRUE, type |-> "dict", success |-> FALSE]

\* What configure_device does with the answer: "true" / "false" for the
\* value it returns, "raise" for an exception that leaves it.  r.json()
\* raises requests' JSONDecodeError on a body that is no JSON; that class
\* is a RequestException (caught: return False) from requests 2.27 on and
\* a plain ValueError (not caught) before, so `caught` is either.
\* response_data.get raises AttributeError unless the document is a dict.
ConfigureOutcome(res, caught) ==
    IF res.kind = "exc" THEN "false"
    ELSE IF res.status = 200
         THEN LET data == ResponseData(res)
              IN  IF ~data.ok THEN (IF caught THEN "false" ELSE "raise")
                  ELSE IF data.type # "dict" THEN "raise"
                  ELSE "true"
         ELSE "false"

\* r = requests.post(url, json=config, timeout=10) and what follows
ConfigurePost(d) ==
    /\ pc[d] = "c_post"
    /\ \E res \in ConfigResults, caught \in BOOLEAN :
         LET oc == ConfigureOutcome(res, caught)
         IN  /\ cfg' = [cfg EXCEPT ![d] = [r |-> res, ret |-> (oc = "true")]]
             /\ pc' = [pc EXCEPT ![d] = IF oc = "raise" THEN "c_raise" ELSE "c_ret"]
    /\ UNCHANGED <<mainVars, flash, wait, rec>>

(***************************************************************************)
(* flash_and_configure_device                                              *)
(***************************************************************************)
NoRec == [ip |-> "", success |-> FALSE, configured |-> FALSE]

\* {"ip": ip, "success": False, "configured": False}
FailedRecordConfigured(ip) == [ip |-> ip, success |-> FALSE, configured |-> TRUE]
FailedRecord(ip) == [ip |-> ip, success |-> FALSE, configured |-> FALSE]

\* {"ip": ip, "success": True, "configured": configured}
FlashedRecord(ip, configured) ==
    [ip |-> ip, success |-> TRUE, configured |-> configured]

\* if not flash_device(...): return the failed record;
\* else call wait_for_device(ip, timeout=60)
WorkerAfterFlash(d) ==
    /\ pc[d] = "f_ret"
    /\ flash' = [flash EXCEPT ![d] = NoFlash]
    /\ IF flash[d].ret
       THEN /\ wait' = [wait EXCEPT ![d] = NewWait(RebootTimeout, DefaultCheckInterval)]
            /\ pc' = [pc EXCEPT ![d] = "w_loop"]
            /\ rec' = rec
       ELSE /\ rec' = [rec EXCEPT ![d] = FailedRecord(d)]
            /\ pc' = [pc EXCEPT ![d] = "done"]
            /\ wait' = wait
    /\ UNCHANGED <<mainVars, cfg>>

\* if wait_for_device(ip, timeout=60):
DeviceCameBackAlways(w) == TRUE
DeviceCameBack(w) == w.ret

\* if wait_for_device(...): call configure_device; else return the record
\* of a flashed, unconfigured device
WorkerAfterWait(d) ==
    /\ pc[d] = "w_ret"
    /\ wait' = [wait EXCEPT ![d] = NoWait]
    /\ IF DeviceCameBack(wait[d])
       THEN /\ pc' = [pc EXCEPT ![d] = "c_post"]
            /\ rec' = rec
       ELSE /\ rec' = [rec EXCEPT ![d] = FlashedRecord(d, FALSE)]
            /\ pc' = [pc EXCEPT ![d] = "done"]
    /\ UNCHANGED <<mainVars, flash, cfg>>

\* configured = configure_device(...): return the record, or let the
\* exception of configure_device leave the worker
WorkerAfterConfigure(d) ==
    /\ pc[d] \in {"c_ret", "c_raise"}
    /\ cfg' = [cfg EXCEPT ![d] = NoCfg]
    /\ IF pc[d] = "c_ret"
       THEN /\ rec' = [rec EXCEPT ![d] = FlashedRecord(d, cfg[d].ret)]
            /\ pc' = [pc EXCEPT ![d] = "done"]
       ELSE /\ rec' = rec
            /\ pc' = [pc EXCEPT ![d] = "raised"]
    /\ UNCHANGED <<mainVars, flash, wait>>

WaitNext(d) ==
    \/ WaitTimeout(d)
    \/ WaitProbe(d)
    \/ WaitSleep(d)
    \/ WaitSettle(d)

WorkerNext(d) ==
    \/ FlashCall(d)
    \/ FlashBackoff(d)
    \/ FlashProbe(d)
    \/ FlashUpload(d)
    \/ FlashFallback(d)
    \/ WorkerAfterFlash(d)
    \/ WaitNext(d)
    \/ WorkerAfterWait(d)
    \/ ConfigurePost(d)
    \/ WorkerAfterConfigure(d)

(***************************************************************************)
(* WLEDListener and discover_wled                                          *)
(***************************************************************************)
\* info.addresses[0] of the devices that advertise themselves
AdvertAddrs == {<<10, 0, 0, 5>>, <<10, 0, 0, 7>>}

DigitChars == <<"0", "1", "2", "3", "4", "5", "6", "7", "8", "9">>

\* str(n), as a sequence of characters
RECURSIVE Str(_)
Str(n) == IF n < 10 THEN <<DigitChars[n + 1]>>
          ELSE Str(n \div 10) \o <<DigitChars[(n % 10) + 1]>>

\* ".".join(map(str, octets)), as a sequence of characters
RECURSIVE JoinDots(_)
JoinDots(octets) ==
    IF Len(octets) = 1 THEN Str(octets[1])
    ELSE Str(Head(octets)) \o <<".">> \o JoinDots(Tail(octets))

AdvertIps == {JoinDots(o) : o \in AdvertAddrs}

NoInflight == [ip \in AdvertIps |-> 0]

RECURSIVE SumOver(_, _)
SumOver(f, S) ==
    IF S = {} THEN 0
    ELSE LET x == CHOOSE y \in S : TRUE IN f[x] + SumOver(f, S \ {x})

\* the string whose characters are cs
RECURSIVE Concat(_)
Concat(cs) == IF cs = <<>> THEN "" ELSE Head(cs) \o Concat(Tail(cs))

\* ord(c) of the characters of an address
CharCode(c) ==
    IF c = "." THEN 46
    ELSE 47 + (CHOOSE i \in 1..Len(DigitChars) : DigitChars[i] = c)

\* a < b for strings: the order sorted() uses
RECURSIVE StrLess(_, _)
StrLess(a, b) ==
    IF b = <<>> THEN FALSE
    ELSE IF a = <<>> THEN TRUE
    ELSE IF Head(a) = Head(b) THEN StrLess(Tail(a), Tail(b))
    ELSE CharCode(Head(a)) < CharCode(Head(b))

\* set(l), and list(s) in the arbitrary order of the set
ToSet(l) == {l[i] : i \in 1..Len(l)}

RECURSIVE SetToList(_)
SetToList(S) ==
    IF S = {} THEN <<>>
    ELSE LET x == CHOOSE y \in S : TRUE IN <<x>> \o SetToList(S \ {x})

\* sorted(l): a stable sort by insertion
RECURSIVE InsertSorted(_, _)
InsertSorted(x, l) ==
    IF l = <<>> THEN <<x>>
    ELSE IF StrLess(x, Head(l)) THEN <<x>> \o l
    ELSE <<Head(l)>> \o InsertSorted(x, Tail(l))

RECURSIVE Sorted(_)
Sorted(l) == IF l = <<>> THEN <<>> ELSE InsertSorted(Head(l), Sorted(Tail(l)))

\* sorted(list(set(listener.devices))), the addresses as strings
DiscoverResultNoSet(l) ==
    LET res == Sorted(l) IN [i \in 1..Len(res) |-> Concat(res[i])]
DiscoverResult(l) ==
    LET res == Sorted(SetToList(ToSet(l))) IN [i \in 1..Len(res) |-> Concat(res[i])]

\* The list main holds after an append to listener.devices: sorted()
\* returned a new list, which the append does not reach.
HeldByMainAliased(devs, ip) == Append(devs, Concat(ip))
HeldByMain(devs, ip) == devs

\* the ServiceBrowser delivers callbacks until zeroconf.close()
BrowserActive == mainPc = "window"

\* add_service: info = zeroconf.get_service_info(...); if info: ip = ...
\* (an advertisement that does not resolve changes nothing)
CbResolve ==
    /\ BrowserActive
    /\ Len(found) + SumOver(inflight, AdvertIps) < MaxAdverts
    /\ \E o \in AdvertAddrs :
         inflight' = [inflight EXCEPT ![JoinDots(o)] = @ + 1]
    /\ UNCHANGED <<devices, firmware, max_retries, mainPc, submitted, yielded,
                   results, summary, pc, flash, wait, cfg, rec, args, found>>

\* add_service: with self.lock: self.devices.append(ip)
CbAppend ==
    /\ \E ip \in AdvertIps :
         /\ inflight[ip] > 0
         /\ inflight' = [inflight EXCEPT ![ip] = @ - 1]
         /\ found' = Append(found, ip)
         /\ devices' = HeldByMain(devices, ip)
    /\ UNCHANGED <<firmware, max_retries, mainPc, submitted, yielded,
                   results, summary, pc, flash, wait, cfg, rec, args>>

\* discover_wled: time.sleep(timeout); zeroconf.close()
DiscClose ==
    /\ mainPc = "window"
    /\ mainPc' = "closed"
    /\ UNCHANGED <<devices, firmware, max_retries, submitted, yielded,
                   results, summary, pc, flash, wait, cfg, rec, discVars>>

\* discover_wled: return sorted(list(set(listener.devices)));
\* main: devices = discover_wled(args.timeout)
DiscReturn ==
    /\ mainPc = "closed"
    /\ devices' = DiscoverResult(found)
    /\ mainPc' = "dry"
    /\ UNCHANGED <<firmware, max_retries, submitted, yielded,
                   results, summary, pc, flash, wait, cfg, rec, discVars>>

DiscNext ==
    \/ CbResolve
    \/ CbAppend
    \/ DiscClose
    \/ DiscReturn

(***************************************************************************)
(* main: the thread pool, as_completed and the summary                     *)
(***************************************************************************)
Range(seq) == {seq[i] : i \in 1..Len(seq)}

\* future.done(): the worker's call has returned or raised
FinishedOnceStarted(d) == pc[d] # "idle"
Finished(d) == pc[d] \in {"done", "raised"}

NoSummary == [total |-> 0, flashed |-> 0, failed |-> 0, configured |-> 0]

\* sum(1 for r in results if r["success"])
SuccessCount(rs) == Cardinality({i \in 1..Len(rs) : rs[i].success})

\* sum(1 for r in results if r["configured"])
ConfiguredCount(rs) == Cardinality({i \in 1..Len(rs) : rs[i].configured})

\* the counts printed by main
Summarize(devs, rs) ==
    [total |-> Len(devs),
     flashed |-> SuccessCount(rs),
     failed |-> Len(rs) - SuccessCount(rs),
     configured |-> ConfiguredCount(rs)]

\* executor.submit(flash_and_configure_device, ip, args.firmware), for the
\* next ip of devices; max_workers=len(devices), so the worker may start
MainSubmit ==
    /\ mainPc = "submit"
    /\ submitted < Len(devices)
    /\ pc' = [pc EXCEPT ![devices[submitted + 1]] = "start"]
    /\ submitted' = submitted + 1
    /\ mainPc' = IF submitted + 1 = Len(devices) THEN "collect" ELSE "submit"
    /\ UNCHANGED <<devices, firmware, max_retries, yielded, results, summary,
                   flash, wait, cfg, rec, discVars>>

\* the futures as_completed has still to yield: each future is yielded once
NotYetYieldedAgain == Range(devices)
NotYetYielded == Range(devices) \ yielded

\* for future in as_completed(future_to_ip): result = future.result();
\* results.append(result).  future.result() re-raises the exception of a
\* worker that raised, which leaves the loop.
MainCollect ==
    /\ mainPc = "collect"
    /\ \E d \in NotYetYielded :
         /\ Finished(d)
         /\ yielded' = yielded \cup {d}
         /\ IF pc[d] = "raised"
            THEN /\ mainPc' = "unwind"
                 /\ results' = results
            ELSE /\ mainPc' = "collect"
                 /\ results' = Append(results, rec[d])
    /\ UNCHANGED <<devices, firmware, max_retries, submitted, summary,
                   pc, flash, wait, cfg, rec, discVars>>

\* as_completed is exhausted and the with block is left: the summary
MainSummary ==
    /\ mainPc = "collect"
    /\ yielded = Range(devices)
    /\ summary' = Summarize(devices, results)
    /\ mainPc' = "done"
    /\ UNCHANGED <<devices, firmware, max_retries, submitted, yielded, results,
                   pc, flash, wait, cfg, rec, discVars>>

\* the exception leaves the with block, whose exit waits for every worker
\* (shutdown(wait=True)), and then leaves main
MainUnwind ==
    /\ mainPc = "unwind"
    /\ \A d \in Range(devices) : Finished(d)
    /\ mainPc' = "raised"
    /\ UNCHANGED <<devices, firmware, max_retries, submitted, yielded, results,
                   summary, pc, flash, wait, cfg, rec, discVars>>

MainNext ==
    \/ MainSubmit
    \/ MainCollect
    \/ MainSummary
    \/ MainUnwind

NoArgs == [dry_run |-> FALSE, ip |-> ""]

\* if args.ip: devices = [args.ip]; else: devices = discover_wled(...),
\* which starts the ServiceBrowser and sleeps
MainTarget ==
    /\ mainPc = "parse"
    /\ IF args.ip # ""
       THEN /\ devices' = <<args.ip>>
            /\ mainPc' = "dry"
       ELSE /\ devices' = devices
            /\ mainPc' = "window"
    /\ UNCHANGED <<firmware, max_retries, submitted, yielded,
                   results, summary, pc, flash, wait, cfg, rec, discVars>>

\* if args.dry_run: return; if not devices: return
StopsBeforeFlashingNoDryRun(a, devs) == devs = <<>>
StopsBeforeFlashing(a, devs) == a.dry_run \/ devs = <<>>

MainDryRun ==
    /\ mainPc = "dry"
    /\ mainPc' = IF StopsBeforeFlashing(args, devices) THEN "exit" ELSE "submit"
    /\ UNCHANGED <<devices, firmware, max_retries, submitted, yielded,
                   results, summary, pc, flash, wait, cfg, rec, discVars>>

RunNext ==
    \/ MainTarget
    \/ MainDryRun
    \/ DiscNext
    \/ MainNext
    \/ \E d \in Addrs : WorkerNext(d)

(***************************************************************************)
(* Specifications                                                          *)
(***************************************************************************)
Idle ==
    /\ pc = [d \in Addrs |-> "idle"]
    /\ flash = [d \in Addrs |-> NoFlash]
    /\ wait = [d \in Addrs |-> NoWait]
    /\ cfg = [d \in Addrs |-> NoCfg]
    /\ rec = [d \in Addrs |-> NoRec]

\* main, after the device list is known and before the pool is created
Init ==
    /\ devices \in DeviceLists
    /\ firmware \in {"present", "missing"}
    /\ max_retries = DefaultMaxRetries
    /\ mainPc = "submit"
    /\ submitted = 0
    /\ yielded = {}
    /\ results = <<>>
    /\ summary = NoSummary
    /\ args = NoArgs
    /\ found = <<>>
    /\ inflight = NoInflight
    /\ Idle

Next == MainNext \/ \E d \in Addrs : WorkerNext(d)

Spec == Init /\ [][Next]_vars

\* one call of flash_and_configure_device(ip, firmware_path, max_retries)
WorkerInit ==
    /\ devices = <<"10.0.0.5">>
    /\ firmware \in {"present", "missing"}
    /\ max_retries \in 0..MaxRetries
    /\ mainPc = "call"
    /\ submitted = 0
    /\ yielded = {}
    /\ results = <<>>
    /\ summary = NoSummary
    /\ args = NoArgs
    /\ found = <<>>
    /\ inflight = NoInflight
    /\ pc = [d \in Addrs |-> IF d = "10.0.0.5" THEN "start" ELSE "idle"]
    /\ flash = [d \in Addrs |-> NoFlash]
    /\ wait = [d \in Addrs |-> NoWait]
    /\ cfg = [d \in Addrs |-> NoCfg]
    /\ rec = [d \in Addrs |-> NoRec]

WorkerSpecNext == \E d \in Addrs : WorkerNext(d)

WorkerSpec == WorkerInit /\ [][WorkerSpecNext]_vars

\* one call of wait_for_device(ip, timeout, check_interval)
WaitInit ==
    /\ devices = <<"10.0.0.5">>
    /\ firmware = "present"
    /\ max_retries = DefaultMaxRetries
    /\ mainPc = "call"
    /\ submitted = 0
    /\ yielded = {}
    /\ results = <<>>
    /\ summary = NoSummary
    /\ args = NoArgs
    /\ found = <<>>
    /\ inflight = NoInflight
    /\ pc = [d \in Addrs |-> IF d = "10.0.0.5" THEN "w_loop" ELSE "idle"]
    /\ flash = [d \in Addrs |-> NoFlash]
    /\ \E t \in 0..MaxTimeout, i \in 1..MaxInterval :
         wait = [d \in Addrs |-> IF d = "10.0.0.5" THEN NewWait(t, i) ELSE NoWait]
    /\ cfg = [d \in Addrs |-> NoCfg]
    /\ rec = [d \in Addrs |-> NoRec]

WaitSpecNext == \E d \in Addrs : WaitNext(d)

WaitSpec == WaitInit /\ [][WaitSpecNext]_vars

\* main, after parse_args
RunInit ==
    /\ devices = <<>>
    /\ firmware \in {"present", "missing"}
    /\ max_retries = DefaultMaxRetries
    /\ mainPc = "parse"
    /\ submitted = 0
    /\ yielded = {}
    /\ results = <<>>
    /\ summary = NoSummary
    /\ args \in [dry_run : BOOLEAN, ip : {""} \cup Addrs]
    /\ found = <<>>
    /\ inflight = NoInflight
    /\ Idle

RunSpec == RunInit /\ [][RunNext]_vars

(***************************************************************************)
(* Properties                                                              *)
(***************************************************************************)
FlashPcs == {"f_backoff", "f_probe", "f_upload", "f_fallback", "f_ret"}

\* the upload call last issued by d's flash_device was cut by the device
UploadCut(d) == flash[d].r.kind = "exc" /\ flash[d].r.abrupt

\* the attempt of d's flash_device in which the last upload was issued failed
AttemptFailed(d) ==
    \/ pc[d] = "f_backoff"
    \/ pc[d] = "f_ret" /\ ~flash[d].ret

\* C1: an upload call (field `update` or `file`) that ends in an abrupt
\* disconnection (connection reset, remote disconnected, chunked-encoding
\* break, read timeout after send) makes flash_device return True with the
\* outcome Success in the same step, and no attempt, probe or upload follows.
UploadCutIsSuccess ==
    /\ [](\A d \in Addrs :
            UploadCut(d) =>
                /\ pc[d] = "f_ret"
                /\ flash[d].ret
                /\ flash[d].outcome = "Success")
    /\ [][\A d \in Addrs :
            UploadCut(d) =>
                /\ flash'[d].posts <= flash[d].posts
                /\ flash'[d].attempt <= flash[d].attempt
                /\ pc'[d] \notin (FlashPcs \ {"f_ret"})]_vars

UploadCutIsSuccessWitness ==
    \E d \in Addrs :
        /\ UploadCut(d)
        /\ flash[d].r.cls = "ReadTimeout"
        /\ flash[d].field = "file"
        /\ flash[d].attempt = 2
        /\ flash[d].ret

\* C2: with the firmware file missing and max_retries >= 1, flash_device
\* ends Fatal during attempt 1: no second attempt, no backoff, no upload.
MissingFirmwareIsFatalAtOnce ==
    (firmware = "missing" /\ max_retries >= 1) =>
        \A d \in Addrs :
            /\ flash[d].attempt <= 1
            /\ pc[d] # "f_backoff"
            /\ flash[d].posts = 0
            /\ (pc[d] = "f_ret" => flash[d].outcome = "Fatal")

\* C3: one call of flash_device issues at most 2 * max_retries upload calls.
UploadCallsBounded ==
    \A d \in Addrs : flash[d].posts <= 2 * max_retries

UploadCallsBoundedWitness ==
    \E d \in Addrs :
        /\ max_retries >= 2
        /\ flash[d].posts = 2 * max_retries
        /\ flash[d].field = "file"

\* C4: an upload is issued only in an attempt whose probe was answered with
\* HTTP 200.
UploadOnlyAfterProbe200 ==
    \A d \in Addrs :
        (pc[d] \in {"f_upload", "f_fallback"} \/ flash[d].r.kind # "none")
            => flash[d].check = 200

\* C5 as claimed: after the fallback upload (field `file`) was answered, the
\* attempt yields Success iff the answer is HTTP 200 with a recognized or
\* empty body.
FallbackNeedsRecognizedBody ==
    \A d \in Addrs :
        (flash[d].field = "file" /\ flash[d].r.kind = "http") =>
            ((pc[d] = "f_ret" /\ flash[d].ret)
                <=> (flash[d].r.status = 200 /\ RecognizedBody(flash[d].r.text)))

\* C5 as amended: after the fallback upload (field `file`) was answered, the
\* attempt yields Success iff the answer is HTTP 200, whatever its body; any
\* other status makes the attempt fail.
FallbackSucceedsOnAny200 ==
    \A d \in Addrs :
        (flash[d].field = "file" /\ flash[d].r.kind = "http") =>
            /\ (pc[d] = "f_ret" /\ flash[d].ret /\ flash[d].outcome = "Success")
                  <=> (flash[d].r.status = 200)
            /\ flash[d].r.status # 200 => AttemptFailed(d)

FallbackSucceedsOnAny200Witness ==
    \E d \in Addrs :
        /\ flash[d].field = "file"
        /\ flash[d].r.kind = "http"
        /\ flash[d].r.status = 200
        /\ ~RecognizedBody(flash[d].r.text)
        /\ pc[d] = "f_ret"
        /\ flash[d].ret

\* C6 as claimed: wait_for_device returns False iff no poll is answered
\* with HTTP 200 before the timeout elapses.
WaitFalseIffNoAnswerBeforeTimeout ==
    \A d \in Addrs :
        pc[d] = "w_ret" =>
            (~wait[d].ret <=>
                ~(wait[d].okAt # -1 /\ wait[d].okAt < wait[d].timeout))

\* C6 as amended: wait_for_device returns False iff no poll issued before
\* the timeout elapsed was answered with HTTP 200 (the answer itself may
\* arrive after the timeout), and then the timeout has elapsed; when it
\* returns True at least the settle delay has passed since the first such
\* answer, and no poll was issued after that answer.
WaitReturnsFalseIffNoAnswer ==
    \A d \in Addrs :
        /\ wait[d].after = 0
        /\ wait[d].okAt # -1 => wait[d].okAt - WaitProbeTimeout < wait[d].timeout
        /\ pc[d] = "w_ret" =>
            /\ ~wait[d].ret <=> wait[d].okAt = -1
            /\ ~wait[d].ret => wait[d].elapsed >= wait[d].timeout
            /\ wait[d].ret => wait[d].elapsed - wait[d].okAt >= SettleDelay

WaitReturnsFalseIffNoAnswerWitness ==
    \E d \in Addrs :
        /\ pc[d] = "w_ret"
        /\ wait[d].ret
        /\ wait[d].okAt >= wait[d].timeout
        /\ wait[d].okAt >= wait[d].check_interval
        /\ wait[d].elapsed = wait[d].okAt + SettleDelay

\* C7: configure_device returns True for every HTTP 200 answer, whatever
\* its content type and body, and False for every other status and every
\* transport error.
ConfigureTrueOnEvery200 ==
    \A d \in Addrs :
        pc[d] \in {"c_ret", "c_raise"} =>
            /\ pc[d] = "c_ret"
            /\ cfg[d].ret <=> (cfg[d].r.kind = "http" /\ cfg[d].r.status = 200)

\* C8: no exception leaves a worker, so future.result() never raises in
\* main.
WorkerNeverRaises ==
    /\ \A d \in Addrs : pc[d] \notin {"c_raise", "raised"}
    /\ mainPc \notin {"unwind", "raised"}

\* the results main has aggregated: the summary is computed from them only
\* when main reaches it
Aggregate == IF mainPc = "done" THEN results ELSE <<>>

\* C9: whatever the other workers do, once main has ended the aggregate
\* holds, for each device whose worker returned a record, that record (which
\* the worker computed from the answers of its own device alone).
IsolatedResults ==
    mainPc \in {"done", "raised"} =>
        \A d \in Range(devices) :
            pc[d] = "done" => \E i \in 1..Len(Aggregate) : Aggregate[i] = rec[d]

\* C10: in the summary, flashed + failed = total devices and configured <=
\* flashed; no record is configured without being flashed.
SummaryCountsConsistent ==
    /\ mainPc = "done" =>
        /\ summary.total = Len(devices)
        /\ summary.flashed + summary.failed = summary.total
        /\ summary.configured <= summary.flashed
    /\ \A i \in 1..Len(results) : results[i].configured => results[i].success
    /\ \A d \in Addrs : rec[d].configured => rec[d].success

SummaryCountsConsistentWitness ==
    /\ mainPc = "done"
    /\ Len(devices) = 2
    /\ summary.flashed = 1
    /\ summary.failed = 1
    /\ summary.configured = 1

\* the workers that were started, and the records collected for an address
StartedWorkers == {d \in Addrs : pc[d] # "idle"}

RecordsOf(d) == {i \in 1..Len(results) : results[i].ip = d}

\* C11: one worker is started per device address (the started workers are
\* the addresses submitted so far, and a started worker is never started
\* again); no address has two records in results, every record belongs to a
\* device of the list, and once main has collected every worker results
\* holds exactly one record per address, in whatever order they completed.
OneWorkerOneRecord ==
    /\ [](/\ StartedWorkers = {devices[i] : i \in 1..submitted}
          /\ Cardinality(StartedWorkers) = submitted
          /\ \A d \in Addrs : Cardinality(RecordsOf(d)) <= 1
          /\ \A i \in 1..Len(results) : results[i].ip \in Range(devices)
          /\ mainPc = "done" =>
                /\ Len(results) = Len(devices)
                /\ \A d \in Range(devices) : Cardinality(RecordsOf(d)) = 1)
    /\ [][\A d \in Addrs :
            /\ pc[d] # "idle" => pc'[d] # "idle"
            /\ (pc'[d] = "start" /\ pc[d] # "start") => pc[d] = "idle"]_vars

\* both workers ran and the second device completed first
OneWorkerOneRecordWitness ==
    /\ mainPc = "done"
    /\ Len(devices) = 2
    /\ Len(results) = 2
    /\ results[1].ip = devices[2]

\* the addresses of the model in ascending string order
AscendingAddrs == <<"10.0.0.5", "10.0.0.7">>

RankOf(a) == CHOOSE i \in 1..Len(AscendingAddrs) : AscendingAddrs[i] = a

IsAscendingUnique(l) ==
    \A i, j \in 1..Len(l) : i < j => RankOf(l[i]) < RankOf(l[j])

\* C12: the list discover_wled returns is strictly ascending (sorted and
\* free of duplicates) and holds exactly the addresses the callbacks have
\* appended to listener.devices by then; with nothing appended it is empty.
\* It stays sorted and duplicate-free for the rest of the run.
DiscoveryListSortedUnique ==
    /\ []((args.ip = "" /\ mainPc \notin {"parse", "window", "closed"}) =>
            IsAscendingUnique(devices))
    /\ [][(mainPc = "closed" /\ mainPc' = "dry") =>
            /\ Range(devices') = {Concat(ip) : ip \in Range(found)}
            /\ IsAscendingUnique(devices')
            /\ found = <<>> => devices' = <<>>]_vars

\* the callbacks appended the higher address first
DiscoveryListSortedUniqueWitness ==
    /\ mainPc = "dry"
    /\ args.ip = ""
    /\ found = <<JoinDots(<<10, 0, 0, 7>>), JoinDots(<<10, 0, 0, 5>>)>>
    /\ devices = <<"10.0.0.5", "10.0.0.7">>

\* a worker has returned or raised; main has returned or raised
Terminal(d) == pc[d] \in {"done", "raised"}

RunEnded == mainPc \in {"done", "raised"} /\ \A d \in Range(devices) : Terminal(d)

\* the latest time at which wait_for_device can still be polling: the loop
\* is entered before `timeout`, and one round adds at most the request
\* timeout and the sleep
LastPollTime(w) == w.timeout + WaitProbeTimeout + w.check_interval

\* steps wait_for_device has left at most
WaitRank(w, p) ==
    CASE p = "w_ret" -> 3
      [] p = "w_settle" -> 4
      [] p = "w_sleep" -> 5 + 2 * (LastPollTime(w) - w.elapsed)
      [] p = "w_loop" -> 6 + 2 * (LastPollTime(w) - w.elapsed)

\* steps the worker has left at most once flash_device has returned
AfterFlashRank == 1 + WaitRank(NewWait(RebootTimeout, DefaultCheckInterval), "w_loop")

\* steps flash_device has left at most, its caller's included
FlashRank(f, p) ==
    AfterFlashRank + 4 * (max_retries - f.attempt) +
        CASE p = "f_fallback" -> 1
          [] p = "f_upload" -> 2
          [] p = "f_probe" -> 3
          [] p = "f_backoff" -> 4

WorkerRank(d) ==
    CASE pc[d] \in {"done", "raised"} -> 0
      [] pc[d] \in {"c_ret", "c_raise"} -> 1
      [] pc[d] = "c_post" -> 2
      [] pc[d] \in {"w_ret", "w_settle", "w_sleep", "w_loop"} -> WaitRank(wait[d], pc[d])
      [] pc[d] = "f_ret" -> AfterFlashRank
      [] pc[d] \in {"f_fallback", "f_upload", "f_probe", "f_backoff"} ->
            FlashRank(flash[d], pc[d])
      [] pc[d] = "start" -> AfterFlashRank + 4 * max_retries + 1
      [] pc[d] = "idle" -> AfterFlashRank + 4 * max_retries + 2

MainRank ==
    CASE mainPc \in {"done", "raised"} -> 0
      [] mainPc = "unwind" -> 1
      [] mainPc = "collect" -> 2 + Len(devices) - Cardinality(yielded)
      [] mainPc = "submit" -> 3 + 2 * Len(devices) - submitted

RECURSIVE SumRanks(_)
SumRanks(S) ==
    IF S = {} THEN 0
    ELSE LET d == CHOOSE x \in S : TRUE IN WorkerRank(d) + SumRanks(S \ {d})

\* steps the run has left at most
Rank == MainRank + SumRanks(Range(devices))

\* C13: every step of main or of a worker lowers a rank that is never
\* negative, and a step is possible until main has ended with every worker
\* terminal: every worker reaches a terminal state and the run ends.
\* flash_device never goes beyond attempt max_retries and wait_for_device
\* polls only up to a bounded time.
RunTerminates ==
    /\ [](/\ Rank >= 0
          /\ RunEnded \/ ENABLED Next
          /\ \A d \in Addrs :
               /\ flash[d].attempt <= max_retries
               /\ pc[d] \in {"w_loop", "w_sleep"} =>
                     wait[d].elapsed <= LastPollTime(wait[d]))
    /\ [][Rank' < Rank]_vars

\* a worker is polling in the last second before the timeout
RunTerminatesWitness ==
    \E d \in Range(devices) :
        /\ pc[d] = "w_loop"
        /\ wait[d].elapsed = RebootTimeout - 1

\* a worker is between two steps of its device's flashing or configuration
Running(d) == pc[d] \notin {"idle", "done", "raised"}

\* C14: the summary is computed in a state where every started worker is
\* terminal; once main has ended (with the summary, or by the exception of
\* a worker) no worker is running and no worker takes a further step, so no
\* request is issued any more.
JoinBarrier ==
    /\ [](mainPc \in {"done", "raised"} => \A d \in Addrs : ~Running(d))
    /\ [][/\ summary' # summary => \A d \in Addrs : ~Running(d)
          /\ mainPc \in {"done", "raised"} =>
                /\ pc' = pc
                /\ flash' = flash
                /\ wait' = wait
                /\ cfg' = cfg]_vars

\* the summary of two workers, the slower of which was collected last
JoinBarrierWitness ==
    /\ mainPc = "done"
    /\ summary.total = 2
    /\ Len(results) = 2
    /\ \A d \in Range(devices) : Terminal(d)

WaitPcs == {"w_loop", "w_sleep", "w_settle", "w_ret"}

ConfigurePcs == {"c_post", "c_ret", "c_raise"}

\* no poll of wait_for_device was answered with 200 within the timeout
NoAnswerWithinTimeout(w) == w.okAt = -1 \/ w.okAt > w.timeout

\* the step by which the worker leaves wait_for_device without configuring
EndsUnconfigured(d) ==
    /\ pc'[d] = "done"
    /\ rec'[d] = [ip |-> d, success |-> TRUE, configured |-> FALSE]
    /\ cfg'[d] = NoCfg

\* the first three parts of C15: the phases of a worker are gated
PhasesGated(d) ==
    /\ (pc'[d] \in WaitPcs /\ pc[d] \notin WaitPcs) =>
          /\ pc[d] = "f_ret"
          /\ flash[d].ret
          /\ flash[d].outcome = "Success"
          /\ wait'[d] = NewWait(RebootTimeout, DefaultCheckInterval)
    /\ (pc'[d] \in ConfigurePcs /\ pc[d] \notin ConfigurePcs) =>
          /\ pc[d] = "w_ret"
          /\ wait[d].ret
          /\ pc'[d] = "c_post"
    /\ (pc[d] = "f_ret" /\ ~flash[d].ret /\ pc'[d] # pc[d]) =>
          /\ pc'[d] = "done"
          /\ rec'[d] = [ip |-> d, success |-> FALSE, configured |-> FALSE]
          /\ wait'[d] = NoWait
          /\ cfg'[d] = NoCfg

\* C15 as stated: ... and when the upload succeeded and no reboot probe
\* succeeds within the 60 s timeout, the worker ends flashed and
\* unconfigured without a configure call.
PhasesGatedByAnswerTime ==
    [][\A d \in Addrs :
         /\ PhasesGated(d)
         /\ (pc[d] = "w_ret" /\ NoAnswerWithinTimeout(wait[d]) /\ pc'[d] # pc[d]) =>
               EndsUnconfigured(d)]_vars

\* C15: the reboot wait starts only when flash_device returned success,
\* POST /json/state is issued only when the wait returned true; a failed
\* flash ends the worker unflashed and unconfigured with no wait and no
\* configure call, and a wait that returned false (no poll started before
\* the 60 s timeout was answered with 200) ends it flashed and unconfigured
\* with no configure call.
PhasesGatedByReturnValue ==
    /\ [](\A d \in Addrs :
            /\ wait[d] # NoWait => pc[d] \in WaitPcs
            /\ cfg[d] # NoCfg => pc[d] \in ConfigurePcs)
    /\ [][\A d \in Addrs :
            /\ PhasesGated(d)
            /\ (pc[d] = "w_ret" /\ ~wait[d].ret /\ pc'[d] # pc[d]) =>
                  EndsUnconfigured(d)]_vars

\* the wait of a flashed device has run into its timeout
PhasesGatedByReturnValueWitness ==
    \E d \in Addrs :
        /\ pc[d] = "w_ret"
        /\ ~wait[d].ret
        /\ wait[d].okAt = -1
        /\ wait[d].elapsed >= RebootTimeout

\* C16: with --dry-run, whether the list comes from discovery or from
\* --ip, main only determines the list and returns: it never reaches the
\* thread pool, no worker leaves the idle state and no request frame of any
\* device is ever filled.
DryRunTouchesNoDevice ==
    args.dry_run =>
        /\ mainPc \in {"parse", "window", "closed", "dry", "exit"}
        /\ mainPc = "exit" => ~ENABLED (MainNext \/ \E d \in Addrs : WorkerNext(d))
        /\ submitted = 0
        /\ \A d \in Addrs :
             /\ pc[d] = "idle"
             /\ flash[d] = NoFlash
             /\ wait[d] = NoWait
             /\ cfg[d] = NoCfg

\* a dry run has listed two discovered devices and returned
DryRunTouchesNoDeviceWitness ==
    /\ args.dry_run
    /\ args.ip = ""
    /\ mainPc = "exit"
    /\ Len(devices) = 2

\* the body holds one of the keywords, whatever the case of its letters
HasKeyword(text) ==
    \/ Contains(<<"s","u","c","c","e","s","s">>, Lower(text))
    \/ Contains(<<"u","p","d","a","t","e">>, Lower(text))

\* the last call of the frame was the upload with field "update", answered
\* with HTTP 200
PrimaryAnswered200(f) ==
    f.field = "update" /\ f.r.kind = "http" /\ f.r.status = 200

\* the fallback call is made once, after the primary call of the attempt,
\* and a primary answer of 200 with an empty or keyword body is a success
\* without a fallback call
FallbackOnceAfterPrimary(d) ==
    /\ (pc'[d] = "f_fallback" /\ pc[d] # "f_fallback") =>
          /\ pc[d] = "f_upload"
          /\ flash'[d].attempt = flash[d].attempt
          /\ flash'[d].posts = flash[d].posts + 1
    /\ (pc[d] = "f_fallback" /\ pc'[d] # "f_fallback") =>
          /\ pc'[d] \in {"f_ret", "f_backoff"}
          /\ flash'[d].field = "file"
          /\ flash'[d].posts = flash[d].posts + 1
    /\ (pc[d] = "f_upload" /\ pc'[d] # "f_upload" /\ PrimaryAnswered200(flash'[d])
          /\ (flash'[d].r.text = <<>> \/ HasKeyword(flash'[d].r.text))) =>
          /\ pc'[d] = "f_ret"
          /\ flash'[d].ret
          /\ flash'[d].outcome = "Success"
          /\ flash'[d].posts = flash[d].posts + 1

\* C17 as stated: the fallback call is pending exactly when the primary
\* call of the attempt was answered with HTTP 200 and a non-empty body
\* without a keyword.
FallbackIffNonEmptyUnrecognized ==
    \A d \in Addrs :
        pc[d] = "f_fallback" <=>
            /\ PrimaryAnswered200(flash[d])
            /\ flash[d].r.text # <<>>
            /\ ~HasKeyword(flash[d].r.text)

\* C17: the fallback call is pending exactly when the primary call of the
\* attempt was answered with HTTP 200 and a body that holds no keyword and
\* is not empty once its surrounding whitespace is stripped; it is made
\* once, after the primary call; a primary answer of 200 with an empty (or
\* whitespace-only) body or a keyword is a success without fallback call.
FallbackIffUnrecognized ==
    /\ [](\A d \in Addrs :
            pc[d] = "f_fallback" <=>
                /\ PrimaryAnswered200(flash[d])
                /\ Strip(flash[d].r.text) # <<>>
                /\ ~HasKeyword(flash[d].r.text))
    /\ [][\A d \in Addrs : FallbackOnceAfterPrimary(d)]_vars

\* the second attempt is about to fall back
FallbackIffUnrecognizedWitness ==
    \E d \in Addrs :
        /\ pc[d] = "f_fallback"
        /\ flash[d].attempt = 2
        /\ flash[d].posts = 3

\* the positions of flash_device at which a request is about to be sent
FlashRequestPcs == {"f_probe", "f_upload", "f_fallback"}

\* the step ends the current attempt of d's flash_device in a failure that
\* is not the missing firmware file
AttemptFailsNow(d) ==
    /\ pc[d] \in FlashRequestPcs
    /\ pc'[d] \in {"f_backoff", "f_ret"}
    /\ ~flash'[d].ret
    /\ flash'[d].outcome # "Fatal"

\* C18: a non-fatal failure of attempt k < max_retries leads to the backoff
\* sleep of attempt k+1, which is followed by the probe of attempt k+1 and
\* by nothing else; a failure of attempt max_retries makes flash_device
\* return False, after which the worker sends no request; the backoff is
\* never taken before attempt 1.
RetryPolicy ==
    /\ [](\A d \in Addrs :
            pc[d] = "f_backoff" =>
                /\ flash[d].attempt \in 2..max_retries
                /\ ~flash[d].ret)
    /\ [][\A d \in Addrs :
            /\ AttemptFailsNow(d) =>
                  IF flash[d].attempt < max_retries
                  THEN /\ pc'[d] = "f_backoff"
                       /\ flash'[d].attempt = flash[d].attempt + 1
                  ELSE /\ pc'[d] = "f_ret"
                       /\ flash'[d].attempt = flash[d].attempt
                       /\ flash'[d].outcome \in {"Unreachable", "AmbiguousFailure"}
            /\ (pc[d] = "f_backoff" /\ pc'[d] # pc[d]) =>
                  /\ pc'[d] = "f_probe"
                  /\ flash'[d].attempt = flash[d].attempt
                  /\ flash'[d].posts = flash[d].posts
            /\ (pc[d] = "start" /\ pc'[d] # pc[d]) =>
                  \/ pc'[d] = "f_probe" /\ flash'[d].attempt = 1
                  \/ pc'[d] = "f_ret" /\ max_retries = 0
            /\ (pc[d] = "f_ret" /\ ~flash[d].ret) => pc'[d] \in {"f_ret", "done"}
            /\ pc[d] = "done" => pc'[d] = "done"]_vars

\* the third attempt is about to start, after two failed fallback calls
RetryPolicyWitness ==
    \E d \in Addrs :
        /\ pc[d] = "f_backoff"
        /\ flash[d].attempt = 3
        /\ flash[d].posts = 4

\* main holds the list it will iterate
ListKnown == mainPc \notin {"parse", "window", "closed"}

\* C19: once main holds the device list no step changes it, an append of a
\* callback to listener.devices included; workers exist only for addresses
\* of the list, one submit per element, and the total of the summary is the
\* length of that list.
DeviceListFixed ==
    /\ [](/\ StartedWorkers \subseteq Range(devices)
          /\ submitted <= Len(devices)
          /\ mainPc = "done" => summary.total = Len(devices))
    /\ [][/\ ListKnown => devices' = devices
          /\ (found' # found /\ ListKnown) =>
                /\ pc' = pc
                /\ submitted' = submitted
                /\ summary' = summary]_vars

\* a callback appended an address after main had got the list: the run
\* ended with the one device of the list
DeviceListFixedWitness ==
    /\ mainPc = "done"
    /\ args.ip = ""
    /\ Len(found) = 2
    /\ Concat(found[2]) \notin Range(devices)
    /\ summary.total = 1

\* an upload to d has been classified as a success, in the frame of
\* flash_device or, once it has returned, by the position of the worker
FlashedAlready(d) ==
    \/ flash[d].outcome = "Success"
    \/ pc[d] \in WaitPcs \cup ConfigurePcs
    \/ pc[d] \in {"done", "raised"} /\ rec[d].success

\* C20: an upload classified as a success makes flash_device return at
\* once, and from then on the worker of that device never sends a probe or
\* an upload of flash_device again: the number of POST /update calls does
\* not grow and no second upload is classified as a success.
NoReflashAfterSuccess ==
    /\ [](\A d \in Addrs :
            /\ flash[d].outcome = "Success" => pc[d] = "f_ret" /\ flash[d].ret
            /\ (pc[d] = "done" /\ rec[d].success) => flash[d] = NoFlash)
    /\ [][\A d \in Addrs :
            /\ FlashedAlready(d) =>
                  /\ pc'[d] \notin {"idle", "start", "f_backoff", "f_probe",
                                    "f_upload", "f_fallback"}
                  /\ flash'[d].posts <= flash[d].posts
                  /\ flash'[d].outcome \in {flash[d].outcome, "none"}
            /\ (flash'[d].outcome = "Success" /\ flash[d].outcome # "Success") =>
                  /\ pc[d] \in {"f_upload", "f_fallback"}
                  /\ flash'[d].posts = flash[d].posts + 1]_vars

\* one device is flashed and configured while main still collects
NoReflashAfterSuccessWitness ==
    /\ mainPc = "collect"
    /\ \E d \in Range(devices) :
         /\ pc[d] = "done"
         /\ rec[d].success
         /\ rec[d].configured

====
